---- MODULE Spec2Model ----
(***************************************************************************)
(* The SPS30 UART driver (src/src/lib.rs) as a state machine: one call of  *)
(* a public operation builds its MOSI frame, writes it, reads the MISO     *)
(* stream byte by byte until two 0x7e have been seen, decodes it, verifies *)
(* the checksum, validates the frame and decodes the payload.              *)
(*                                                                         *)
(* The serial transport and the SHDLC codec are the driver's collaborators.*)
(* The transport is one of two test doubles, chosen at construction:       *)
(*   "fuzz": answers the one request it accepts with an arbitrary stream;  *)
(*   "stub": a device that answers every request with one well-formed      *)
(*           frame and stores the cleaning interval it is sent.            *)
(* Either double may report would-block or a hard fault on any byte read,  *)
(* and a failure on any write.                                             *)
(***************************************************************************)
EXTENDS Integers, Sequences, FiniteSets, TLC

VARIABLES
    pc,        \* "idle" | "reading" | "decode" | "done": position of the current call
    op,        \* the public operation being executed
    arg,       \* its argument (val of write_cleaning_interval, info of device_info)
    mosi,      \* the payload handed to send_uart_data
    tx,        \* the bytes handed to serial.bwrite_all by the current call
    rx,        \* bytes the transport holds for serial.read, oldest first
    chatter,   \* the device keeps sending filler bytes once rx is drained
    output,    \* read_uart_data's accumulation buffer
    seen,      \* read_uart_data's delimiter counter
    resp,      \* what decode returned to read_uart_data
    result,    \* what the call returned
    nwrites,   \* serial.bwrite_all calls made by the current call
    nreads,    \* serial.read calls made by the current call
    werr,      \* the current call's write failed
    dev,       \* which transport double the driver was constructed with
    interval,  \* the stub device's stored auto-cleaning interval
    faulted,   \* the transport has reported a write failure, would-block or hard fault
    ncalls,    \* calls started so far
    prev,      \* op and arg of the previous call if it returned Ok
    stale,     \* bytes the transport held, unread, when the current call wrote its request
    fin,       \* unit harness: the function applied and its arguments
    fout       \* unit harness: what the function returned

vars == <<pc, op, arg, mosi, tx, rx, chatter, output, seen, resp, result, nwrites,
          nreads, werr, dev, interval, faulted, ncalls, prev, stale, fin, fout>>

-----------------------------------------------------------------------------
(* Program constants and bounds *)

MAX_BUFFER == 600

MaxCalls == 2

\* longest input the unit harness gives compute_cksum
MaxCkLen == 4

\* longest payload the unit harness gives check_miso_frame
MaxFrameLen == 6

\* A u32 is held as <<hi, lo>>, its two 16-bit halves (value hi * 65536 + lo):
\* TLC's integers are 32-bit signed.
U16 == 65536

\* (x << 8) on a u32: the bits shifted out of the top are lost
Shl8(x) == << (x[1] * 256 + x[2] \div 256) % U16, (x[2] * 256) % U16 >>

\* whether x * 256 + b exceeds u32::MAX (b a byte)
MulAddOverflows(x, b) == x[1] * 256 + (x[2] * 256 + b) \div U16 >= U16

\* x * 256 + b, wrapped to 32 bits
MulAdd(x, b) ==
    << (x[1] * 256 + (x[2] * 256 + b) \div U16) % U16, (x[2] * 256 + b) % U16 >>

\* whether x + b exceeds u32::MAX (b a byte)
AddOverflows(x, b) == x[1] + (x[2] + b) \div U16 >= U16

\* x + b on a u32 (b a byte), wrapped to 32 bits
AddByte(x, b) == << (x[1] + (x[2] + b) \div U16) % U16, (x[2] + b) % U16 >>

-----------------------------------------------------------------------------
(* Byte-sequence helpers *)

Take(s, n) == SubSeq(s, 1, IF n < Len(s) THEN n ELSE Len(s))

\* s[i] with the source's 0-based index
At(s, i) == s[i + 1]

\* s[a..b] with the source's 0-based half-open range
Slice(s, a, b) == SubSeq(s, a + 1, b)

CountByte(s, b) == Cardinality({i \in 1..Len(s) : s[i] = b})

Fill(n, b) == [i \in 1..n |-> b]

-----------------------------------------------------------------------------
(* Checksum, lib.rs compute_cksum *)

RECURSIVE CksumLoop(_, _)
CksumLoop(data, cksum) ==
    IF data = <<>> THEN cksum
    ELSE LET val == cksum + Head(data)
             lsb == val % 256
         IN  CksumLoop(Tail(data), lsb)

\* the value taken from 256, as for a two's-complement checksum
compute_cksum_twos(data) == 256 - CksumLoop(data, 0)

compute_cksum(data) == 255 - CksumLoop(data, 0)

\* the largest value "val: u16" takes in the loop of compute_cksum
RECURSIVE CksumPeak(_, _)
CksumPeak(data, cksum) ==
    IF data = <<>> THEN 0
    ELSE LET val  == cksum + Head(data)
             rest == CksumPeak(Tail(data), val % 256)
         IN  IF val > rest THEN val ELSE rest

-----------------------------------------------------------------------------
(* Command codes, lib.rs enum CommandType and enum DeviceInfo *)

Ops == {"start_measurement", "stop_measurement", "read_measurement",
        "read_cleaning_interval", "write_cleaning_interval",
        "start_fan_cleaning", "device_info", "reset"}

CommandType(o) ==
    CASE o = "start_measurement"       -> 0
      [] o = "stop_measurement"        -> 1
      [] o = "read_measurement"        -> 3
      [] o = "read_cleaning_interval"  -> 128
      [] o = "write_cleaning_interval" -> 128
      [] o = "start_fan_cleaning"      -> 86
      [] o = "device_info"             -> 208
      [] o = "reset"                   -> 211

DeviceInfo == {1, 2, 3}

-----------------------------------------------------------------------------
(* Request frames: the MOSI payload each operation builds before            *)
(* send_uart_data.  Every one ends with compute_cksum of what precedes.     *)

\* u32::to_le_bytes, the least significant byte first
to_le_bytes(val) ==
    << val[2] % 256, val[2] \div 256, val[1] % 256, val[1] \div 256 >>

\* u32::to_be_bytes
to_be_bytes(val) ==
    << val[1] \div 256, val[1] % 256, val[2] \div 256, val[2] % 256 >>

\* write_cleaning_interval's length byte counting the four bytes of val only
RequestBodyShortLen(o, a) ==
    CASE o = "start_measurement"       -> <<0, 0, 2, 1, 3>>
      [] o = "stop_measurement"        -> <<0, 1, 0>>
      [] o = "read_measurement"        -> <<0, 3, 0>>
      [] o = "read_cleaning_interval"  -> <<0, 128, 1, 0>>
      [] o = "write_cleaning_interval" -> <<0, 128, 4, 0>> \o to_be_bytes(a)
      [] o = "start_fan_cleaning"      -> <<0, 86, 0>>
      [] o = "device_info"             -> <<0, 208, 1>> \o <<a[2]>>
      [] o = "reset"                   -> <<0, 211, 0>>

\* the bytes pushed before the checksum
RequestBody(o, a) ==
    CASE o = "start_measurement"       -> <<0, 0, 2, 1, 3>>
      [] o = "stop_measurement"        -> <<0, 1, 0>>
      [] o = "read_measurement"        -> <<0, 3, 0>>
      [] o = "read_cleaning_interval"  -> <<0, 128, 1, 0>>
      [] o = "write_cleaning_interval" -> <<0, 128, 5, 0>> \o to_be_bytes(a)
      [] o = "start_fan_cleaning"      -> <<0, 86, 0>>
      [] o = "device_info"             -> <<0, 208, 1>> \o <<a[2]>>
      [] o = "reset"                   -> <<0, 211, 0>>

Request(o, a) == RequestBody(o, a) \o <<compute_cksum(RequestBody(o, a))>>

-----------------------------------------------------------------------------
(* The SHDLC frame codec (crate sensirion_hdlc, a collaborator): a payload  *)
(* is byte-stuffed and put between two 0x7e delimiters.                     *)

FEND == 126

IsSpecial(b) == b \in {126, 125, 17, 19}

\* the byte that follows the escape byte 0x7d for a reserved byte
Trade(b) ==
    CASE b = 126 -> 94
      [] b = 125 -> 93
      [] b = 17  -> 49
      [] b = 19  -> 51

Untrade(t) ==
    CASE t = 94 -> 126
      [] t = 93 -> 125
      [] t = 49 -> 17
      [] t = 51 -> 19

RECURSIVE Stuff(_)
Stuff(p) ==
    IF p = <<>> THEN <<>>
    ELSE (IF IsSpecial(Head(p)) THEN <<125, Trade(Head(p))>> ELSE <<Head(p)>>)
         \o Stuff(Tail(p))

encode(payload) == <<FEND>> \o Stuff(payload) \o <<FEND>>

\* Unstuffing: [ok, v]; fails on an escape byte with no valid trade byte.
RECURSIVE Unstuff(_, _)
Unstuff(s, acc) ==
    IF s = <<>> THEN [ok |-> TRUE, v |-> acc]
    ELSE IF Head(s) = 125
         THEN IF Len(s) >= 2 /\ s[2] \in {94, 93, 49, 51}
              THEN Unstuff(Tail(Tail(s)), Append(acc, Untrade(s[2])))
              ELSE [ok |-> FALSE, v |-> <<>>]
         ELSE Unstuff(Tail(s), Append(acc, Head(s)))

FirstFend(s) == CHOOSE i \in 1..Len(s) : s[i] = FEND /\ \A j \in 1..(i - 1) : s[j] # FEND

\* The outcomes decode may return for a stream read_uart_data captured (a
\* stream with two delimiters, the second one last).  A stream that is
\* exactly the encoding of a non-empty payload decodes to that payload;
\* a broken escape fails; for bytes ahead of the first delimiter and for
\* an empty body the codec may either fail or return what lies between the
\* delimiters.
decode(stream) ==
    LET i    == FirstFend(stream)
        body == SubSeq(stream, i + 1, Len(stream) - 1)
        u    == Unstuff(body, <<>>)
        good == [ok |-> TRUE, v |-> u.v]
        bad  == [ok |-> FALSE, v |-> <<>>]
    IN  IF ~u.ok THEN {bad}
        ELSE IF i = 1 /\ u.v # <<>> THEN {good}
        ELSE {good, bad}

-----------------------------------------------------------------------------
(* Results.  kind is "Ok", one of the variants of lib.rs enum Error (the    *)
(* nb::Error carried by SerialR split in its two cases), or "panic" for a   *)
(* Rust panic (index out of range, arithmetic overflow).  val is the        *)
(* returned data as a sequence: the ten f32 bit patterns, the 32 info       *)
(* bytes, the interval as a one-element sequence, or empty.                 *)

ErrorKinds == {"SerialR_WouldBlock", "SerialR_Other", "SerialW", "SHDLC",
               "InvalidFrame", "EmptyResult", "ChecksumFailed",
               "InvalidRespose", "StatusError"}

Res(k, v) == [kind |-> k, val |-> v]

Err(k) == Res(k, <<>>)

NoResult == Res("none", <<>>)

-----------------------------------------------------------------------------
(* Response validation, lib.rs check_miso_frame: "Ok" or the error kind.    *)

\* the state byte looked at before the command byte
check_miso_frame_state_first(data, cmd_type) ==
    IF Len(data) < 5 THEN "InvalidRespose"
    ELSE IF At(data, 2) # 0 THEN "StatusError"
    ELSE IF At(data, 1) # cmd_type THEN "InvalidRespose"
    ELSE IF At(data, 3) # Len(data) - 5 THEN "InvalidRespose"
    ELSE "Ok"

check_miso_frame(data, cmd_type) ==
    IF Len(data) < 5 THEN "InvalidRespose"
    ELSE IF At(data, 1) # cmd_type THEN "InvalidRespose"
    ELSE IF At(data, 2) # 0 THEN "StatusError"
    ELSE IF At(data, 3) # Len(data) - 5 THEN "InvalidRespose"
    ELSE "Ok"

-----------------------------------------------------------------------------
(* Payload decoding of each operation, applied to what read_uart_data       *)
(* returned.                                                                *)

\* the four bytes taken least significant first
RECURSIVE BitsLoopLe(_, _)
BitsLoopLe(bytes, bits) ==
    IF bytes = <<>> THEN bits
    ELSE AddByte(Shl8(BitsLoopLe(Tail(bytes), bits)), Head(bytes))

\* lib.rs read_measurement: bits = (bits << 8) + byte as u32
RECURSIVE BitsLoop(_, _)
BitsLoop(bytes, bits) ==
    IF bytes = <<>> THEN bits
    ELSE BitsLoop(Tail(bytes), AddByte(Shl8(bits), Head(bytes)))

\* whether the addition of some turn of that loop overflows the u32 (a panic
\* in a build with overflow checks; the shift only drops bits)
RECURSIVE BitsOverflows(_, _)
BitsOverflows(bytes, bits) ==
    IF bytes = <<>> THEN FALSE
    ELSE AddOverflows(Shl8(bits), Head(bytes))
         \/ BitsOverflows(Tail(bytes), AddByte(Shl8(bits), Head(bytes)))

\* lib.rs read_cleaning_interval: ret = ret * 256 + byte as u32
RECURSIVE RetLoop(_, _)
RetLoop(bytes, ret) ==
    IF bytes = <<>> THEN ret
    ELSE RetLoop(Tail(bytes), MulAdd(ret, Head(bytes)))

\* whether some turn of that loop overflows the u32 (a panic in a build with
\* overflow checks)
RECURSIVE RetOverflows(_, _)
RetOverflows(bytes, ret) ==
    IF bytes = <<>> THEN FALSE
    ELSE MulAddOverflows(ret, Head(bytes))
         \/ RetOverflows(Tail(bytes), MulAdd(ret, Head(bytes)))

\* start_measurement, stop_measurement, start_fan_cleaning, reset
unit_op(response, cmd_type) ==
    IF check_miso_frame(response, cmd_type) = "Ok" THEN Res("Ok", <<>>)
    ELSE Err(check_miso_frame(response, cmd_type))

\* read_measurement without its arm for a payload of length 5
read_measurement_result_no_empty(v) ==
    IF Len(v) = 45
    THEN IF check_miso_frame(v, 3) # "Ok"
         THEN Err(check_miso_frame(v, 3))
         ELSE Res("Ok", [i \in 1..10 |->
                            BitsLoop(Slice(v, 4 + 4 * (i - 1), 4 + 4 * i), <<0, 0>>)])
    ELSE Err("InvalidFrame")

read_measurement_result(v) ==
    IF Len(v) = 45
    THEN IF check_miso_frame(v, 3) # "Ok"
         THEN Err(check_miso_frame(v, 3))
         ELSE IF \E i \in 1..10 :
                    BitsOverflows(Slice(v, 4 + 4 * (i - 1), 4 + 4 * i), <<0, 0>>)
         THEN Res("panic", <<>>)
         ELSE Res("Ok", [i \in 1..10 |->
                            BitsLoop(Slice(v, 4 + 4 * (i - 1), 4 + 4 * i), <<0, 0>>)])
    ELSE IF Len(v) = 5 THEN Err("EmptyResult")
    ELSE Err("InvalidFrame")

read_cleaning_interval_result(response) ==
    IF check_miso_frame(response, 128) # "Ok"
    THEN Err(check_miso_frame(response, 128))
    ELSE IF At(response, 3) # 4 THEN Err("InvalidRespose")
    ELSE IF Len(response) < 8 \/ RetOverflows(Slice(response, 4, 8), <<0, 0>>)
         THEN Res("panic", <<>>)
         ELSE Res("Ok", <<RetLoop(Slice(response, 4, 8), <<0, 0>>)>>)

\* write_cleaning_interval without its test of the data length
write_cleaning_interval_result_any_len(response) ==
    IF check_miso_frame(response, 128) # "Ok"
    THEN Err(check_miso_frame(response, 128))
    ELSE Res("Ok", <<>>)

write_cleaning_interval_result(response) ==
    IF check_miso_frame(response, 128) # "Ok"
    THEN Err(check_miso_frame(response, 128))
    ELSE IF At(response, 3) # 0 THEN Err("InvalidRespose")
    ELSE Res("Ok", <<>>)

\* the bound taken one too far, "val[3] < 34"
InfoFitsOneMore(len) == len < 34

\* the bound of lib.rs line 356, "if val[3] < 33"
InfoFits(len) == len < 33

\* the byte copied to ret[i], lib.rs line 358
InfoByte(val, i) == At(val, 3 + i)

device_info_result(val) ==
    IF check_miso_frame(val, 208) # "Ok"
    THEN Err(check_miso_frame(val, 208))
    ELSE IF InfoFits(At(val, 3))
         THEN IF \E i \in 0..(At(val, 3) - 1) : i >= 32 \/ 3 + i >= Len(val)
              THEN Res("panic", <<>>)
              ELSE Res("Ok", [k \in 1..32 |->
                                 IF k - 1 < At(val, 3) THEN InfoByte(val, k - 1)
                                 ELSE 0])
         ELSE Err("EmptyResult")

OpDecode(o, v) ==
    CASE o = "read_measurement"        -> read_measurement_result(v)
      [] o = "read_cleaning_interval"  -> read_cleaning_interval_result(v)
      [] o = "write_cleaning_interval" -> write_cleaning_interval_result(v)
      [] o = "device_info"             -> device_info_result(v)
      [] OTHER                         -> unit_op(v, CommandType(o))

-----------------------------------------------------------------------------
(* read_uart_data after its loop: decode, then the checksum comparison.     *)

\* the loop left on the third delimiter
LoopRunsToThird(seen1) == seen1 # 3

\* lib.rs line 131: while seen != 2
LoopRuns(seen1) == seen1 # 2

\* the cap compared one byte late
CapExceededLate(len) == len > MAX_BUFFER + 1

\* lib.rs line 144
CapExceeded(len) == len > MAX_BUFFER

\* the comparison of line 151 inverted
CksumDiffers(v) == At(v, Len(v) - 1) # compute_cksum(Slice(v, 0, Len(v) - 1))

\* lib.rs line 151: v[v.len() - 1] == compute_cksum(&v[..v.len() - 1])
CksumMatches(v) == At(v, Len(v) - 1) = compute_cksum(Slice(v, 0, Len(v) - 1))

\* d is the outcome of decode; v.len() - 1 underflows on an empty payload
ReadTail(o, d) ==
    IF ~d.ok THEN Err("SHDLC")
    ELSE IF Len(d.v) = 0 THEN Res("panic", <<>>)
    ELSE IF CksumMatches(d.v) THEN OpDecode(o, d.v)
    ELSE Err("ChecksumFailed")

-----------------------------------------------------------------------------
(* The stub device: answers each request with one well-formed frame and     *)
(* keeps the auto-cleaning interval it is sent.                             *)

RECURSIVE SumBytes(_)
SumBytes(s) == IF s = <<>> THEN 0 ELSE Head(s) + SumBytes(Tail(s))

StubCksum(s) == 255 - (SumBytes(s) % 256)

\* the interval on the wire, most significant byte first
StubBe(n) == << n[1] \div 256, n[1] % 256, n[2] \div 256, n[2] % 256 >>

StubU32(b) == << b[1] * 256 + b[2], b[3] * 256 + b[4] >>

\* the request as the device receives it: the written stream, unstuffed
StubRequest(stream) == Unstuff(SubSeq(stream, 2, Len(stream) - 1), <<>>).v

MeasData == <<63, 128, 0, 0>> \o [i \in 1..36 |-> i]

\* forty data bytes with the top bit set: 255, 254, ..., 216
MeasDataHigh == [i \in 1..40 |-> 256 - i]

StubInfo(sel) ==
    CASE sel = 1 -> <<83, 80, 83, 51, 48>>
      [] sel = 2 -> <<>>
      [] OTHER   -> <<48, 49, 50, 51>>

\* the data bytes of the answer; ready: a measurement is available
StubData(req, stored, ready) ==
    CASE At(req, 1) = 3                     -> IF ready THEN MeasData ELSE <<>>
      [] At(req, 1) = 128 /\ At(req, 2) = 1 -> StubBe(stored)
      [] At(req, 1) = 208                   -> StubInfo(At(req, 3))
      [] OTHER                              -> <<>>

StubReply(req, stored, ready) ==
    LET data == StubData(req, stored, ready)
        head == <<0, At(req, 1), 0, Len(data)>> \o data
    IN  head \o <<StubCksum(head)>>

StubStore(req, stored) ==
    IF At(req, 1) = 128 /\ At(req, 2) = 5 THEN StubU32(Slice(req, 4, 8))
    ELSE stored

-----------------------------------------------------------------------------
(* The fuzz transport: the streams it may answer a request of command code  *)
(* c with.                                                                  *)

OtherCmd(c) == IF c = 3 THEN 0 ELSE 3

Pattern(n) == [i \in 1..n |-> 64 + i]

FuzzData ==
    { <<>>, <<65>>, Pattern(4), <<126, 125, 17, 19>>, <<255, 255, 255, 255>>,
      Pattern(32), Pattern(33), MeasData, MeasDataHigh, Pattern(41) }

\* a MISO payload: lenOff is added to the length field, ckOff to the checksum
Miso(cmd, state, data, lenOff, ckOff) ==
    LET head == <<0, cmd, state, Len(data) + lenOff>> \o data
    IN  head \o <<(StubCksum(head) + ckOff) % 256>>

FuzzPayloads(c) ==
    { Miso(cmd, st, data, lo, co) :
        cmd \in {c, OtherCmd(c)}, st \in {0, 67}, data \in FuzzData,
        lo \in {0, 1}, co \in {0, 1} }
    \cup { <<255>>, <<0>>, <<0, c, 255 - c>>, <<0, c, 1, 254 - c>>,
           <<0, c, 0, 0>> }

\* Streams that reach the 600-byte cap with two delimiters: the second
\* delimiter as byte 601, and as byte 600.  Both open with a broken escape
\* (0x7d 0x00).
FuzzFloods ==
    { <<FEND, 125, 0>> \o Fill(MAX_BUFFER - 3, 85) \o <<FEND>>,
      <<FEND, 125, 0>> \o Fill(MAX_BUFFER - 4, 85) \o <<FEND>> }

FuzzStreams(c) ==
    { encode(p) : p \in FuzzPayloads(c) }
    \cup { <<85, 0>> \o encode(Miso(c, st, <<>>, 0, 0)) : st \in {0, 67} }
    \cup { encode(Miso(c, 0, <<>>, 0, 0)) \o <<85, FEND, 0>> }
    \cup { <<FEND, FEND>>, <<85, 85, FEND, FEND>>, <<FEND, 125, 0, FEND>>,
           <<FEND, 0>>, <<>> }
    \cup FuzzFloods

\* the filler byte of a device that never stops sending
Filler == 85

\* An answer is a finite stream, or a finite stream followed by filler bytes
\* for ever (a response stream that never presents a second delimiter).
FuzzAnswers(c) ==
    { [bytes |-> b, chatter |-> FALSE] : b \in FuzzStreams(c) }
    \cup { [bytes |-> b, chatter |-> TRUE] : b \in { <<>>, <<FEND>>, <<0, FEND, 125>> } }

\* 0, 0x7E7D1113 (every byte reserved by the codec), u32::MAX
IntervalVals == { <<0, 0>>, <<32381, 4371>>, <<65535, 65535>> }

-----------------------------------------------------------------------------
(* The state machine *)

NoResp == [st |-> "none", v |-> <<>>]

NoPrev == [op |-> "none", arg |-> <<0, 0>>, kind |-> "none"]

NoCall == [fn |-> "none", data |-> <<>>, cmd_type |-> 0]

NoReturn == [res |-> NoResult, peak |-> 0]

Init ==
    /\ pc = "idle"
    /\ op = "none"
    /\ arg = <<0, 0>>
    /\ mosi = <<>>
    /\ tx = <<>>
    /\ rx = <<>>
    /\ chatter = FALSE
    /\ output = <<>>
    /\ seen = 0
    /\ resp = NoResp
    /\ result = NoResult
    /\ nwrites = 0
    /\ nreads = 0
    /\ werr = FALSE
    /\ dev \in {"fuzz", "stub"}
    /\ interval = <<9, 14976>>
    /\ faulted = FALSE
    /\ ncalls = 0
    /\ prev = NoPrev
    /\ stale = 0
    /\ fin = NoCall
    /\ fout = NoReturn

\* calls the harness makes on one driver instance
CallLimit == IF dev = "stub" THEN MaxCalls ELSE 1

\* what the device puts on the line in answer to the written stream
Answers(o, stream) ==
    IF dev = "stub"
    THEN { [bytes   |-> encode(StubReply(StubRequest(stream), interval, ready)),
            chatter |-> FALSE] :
             ready \in (IF o = "read_measurement" THEN BOOLEAN ELSE {TRUE}) }
    ELSE FuzzAnswers(CommandType(o))

\* the request written once more when the exchange did not end in Ok
WritesAfterResending(kind) == IF kind = "Ok" THEN 0 ELSE 1

\* serial.bwrite_all calls a method makes once its exchange has ended with
\* kind: every arm of every method returns, none writes again
WritesAfter(kind) == 0

\* send_uart_data's result dropped: the call reads whatever the write did
AfterSendUnchecked(wok) == "reading"

\* the "?" after send_uart_data: where the call goes on a write outcome
AfterSend(wok) == IF wok THEN "reading" ELSE "done"

\* An operation up to and including send_uart_data(&output)?: the request is
\* built, encoded and written; wok is the outcome of serial.bwrite_all and
\* ans what the device answers to a request it received.
Send(o, a, wok, ans) ==
    /\ pc \in {"idle", "done"}
    /\ ncalls < CallLimit
    /\ pc' = AfterSend(wok)
    /\ result' = IF AfterSend(wok) = "done" THEN Err("SerialW") ELSE NoResult
    /\ werr' = ~wok
    /\ faulted' = (faulted \/ ~wok)
    /\ rx' = rx \o ans.bytes
    /\ chatter' = ans.chatter
    /\ interval' = IF wok /\ dev = "stub"
                   THEN StubStore(StubRequest(encode(Request(o, a))), interval)
                   ELSE interval
    /\ op' = o
    /\ arg' = a
    /\ mosi' = Request(o, a)
    /\ tx' = encode(Request(o, a))
    /\ nwrites' = 1 + (IF AfterSend(wok) = "done" THEN WritesAfter("SerialW") ELSE 0)
    /\ nreads' = 0
    /\ output' = <<>>
    /\ seen' = 0
    /\ resp' = NoResp
    /\ ncalls' = ncalls + 1
    /\ prev' = IF pc = "done" /\ result.kind = "Ok"
               THEN [op |-> op, arg |-> arg, kind |-> result.kind]
               ELSE NoPrev
    /\ stale' = Len(rx)
    /\ UNCHANGED <<dev, fin, fout>>

Call(o, a) ==
    /\ pc \in {"idle", "done"}
    /\ ncalls < CallLimit
    /\ \E wok \in BOOLEAN :
         \E ans \in (IF wok THEN Answers(o, encode(Request(o, a))) ELSE {[bytes |-> <<>>, chatter |-> FALSE]}) :
            Send(o, a, wok, ans)

start_measurement == Call("start_measurement", <<0, 0>>)

stop_measurement == Call("stop_measurement", <<0, 0>>)

read_measurement == Call("read_measurement", <<0, 0>>)

read_cleaning_interval == Call("read_cleaning_interval", <<0, 0>>)

write_cleaning_interval == \E val \in IntervalVals : Call("write_cleaning_interval", val)

start_fan_cleaning == Call("start_fan_cleaning", <<0, 0>>)

device_info == \E info \in DeviceInfo : Call("device_info", <<0, info>>)

reset == Call("reset", <<0, 0>>)

\* read_uart_data, one turn of the loop in which serial.read() returns Ok(value)
ReadByte ==
    /\ pc = "reading"
    /\ rx # <<>> \/ chatter
    /\ LET value == IF rx # <<>> THEN Head(rx) ELSE Filler
           seen1 == IF value = FEND THEN seen + 1 ELSE seen
           out1  == Append(output, value)
       IN  /\ rx' = IF rx # <<>> THEN Tail(rx) ELSE rx
           /\ output' = out1
           /\ seen' = seen1
           /\ nreads' = nreads + 1
           /\ IF CapExceeded(Len(out1))
              THEN /\ pc' = "done"
                   /\ result' = Err("InvalidFrame")
                   /\ nwrites' = nwrites + WritesAfter("InvalidFrame")
              ELSE /\ pc' = IF LoopRuns(seen1) THEN "reading" ELSE "decode"
                   /\ result' = result
                   /\ nwrites' = nwrites
    /\ UNCHANGED <<op, arg, mosi, tx, chatter, resp, werr, dev, interval,
                   faulted, ncalls, prev, stale, fin, fout>>

\* the Err(e) arm of the loop: e converted by From<nbError<F>>
ReadErr(kind) ==
    /\ pc = "reading"
    /\ pc' = "done"
    /\ result' = Err(kind)
    /\ nreads' = nreads + 1
    /\ faulted' = TRUE
    /\ nwrites' = nwrites + WritesAfter(kind)
    /\ UNCHANGED <<op, arg, mosi, tx, rx, chatter, output, seen, resp, werr,
                   dev, interval, ncalls, prev, stale, fin, fout>>

\* serial.read() returns Err(nb::Error::WouldBlock)
ReadWouldBlock == ReadErr("SerialR_WouldBlock")

\* serial.read() returns Err(nb::Error::Other(_))
ReadFault == ReadErr("SerialR_Other")

\* read_uart_data after the loop, and the operation's handling of its result
Finish ==
    /\ pc = "decode"
    /\ \E d \in decode(output) :
         /\ resp' = [st |-> IF d.ok THEN "ok" ELSE "err", v |-> d.v]
         /\ result' = ReadTail(op, d)
         /\ nwrites' = nwrites + WritesAfter(ReadTail(op, d).kind)
    /\ pc' = "done"
    /\ UNCHANGED <<op, arg, mosi, tx, rx, chatter, output, seen, nreads, werr,
                   dev, interval, faulted, ncalls, prev, stale, fin, fout>>

Next ==
    \/ start_measurement
    \/ stop_measurement
    \/ read_measurement
    \/ read_cleaning_interval
    \/ write_cleaning_interval
    \/ start_fan_cleaning
    \/ device_info
    \/ reset
    \/ ReadByte
    \/ ReadWouldBlock
    \/ ReadFault
    \/ Finish

Spec == Init /\ [][Next]_vars

\* A call runs to its end: the driver's loop is not suspended between two
\* byte reads, and what follows the loop runs once the loop is left.
ReadStep == ReadByte \/ ReadWouldBlock \/ ReadFault \/ Finish

\* The driver on the fuzz transport, the one that can keep delivering bytes
\* without ever presenting a second delimiter.
InitFuzz == Init /\ dev = "fuzz"

LiveSpec == InitFuzz /\ [][Next]_vars /\ WF_vars(ReadStep)

-----------------------------------------------------------------------------
(* The unit harness: the two private pure functions applied once to an      *)
(* argument drawn from a bounded set.                                       *)

RECURSIVE SeqsUpTo(_, _)
SeqsUpTo(n, bytes) ==
    IF n = 0 THEN { <<>> }
    ELSE LET shorter == SeqsUpTo(n - 1, bytes)
         IN  shorter \cup { Append(s, b) : s \in { t \in shorter : Len(t) = n - 1 }, b \in bytes }

CksumInputs == SeqsUpTo(MaxCkLen, {0, 1, 127, 128, 255})

\* payload bytes: the command codes 0, 1 and 3, state bytes 0..3, length
\* fields 0..3
FrameInputs == SeqsUpTo(MaxFrameLen, {0, 1, 2, 3})

driver == <<pc, op, arg, mosi, tx, rx, chatter, output, seen, resp, result, nwrites,
            nreads, werr, dev, interval, faulted, ncalls, prev, stale>>

ApplyCksum ==
    /\ fin = NoCall
    /\ \E data \in CksumInputs :
         /\ fin' = [fn |-> "compute_cksum", data |-> data, cmd_type |-> 0]
         /\ fout' = [res |-> Res("Ok", <<compute_cksum(data)>>), peak |-> CksumPeak(data, 0)]
    /\ UNCHANGED driver

\* check_miso_frame's return value: Ok(data) hands back the slice it was given
check_miso_frame_value(data, cmd_type) ==
    IF check_miso_frame(data, cmd_type) = "Ok" THEN Res("Ok", data)
    ELSE Err(check_miso_frame(data, cmd_type))

ApplyCheck ==
    /\ fin = NoCall
    /\ \E data \in FrameInputs, cmd_type \in {0, 1, 3} :
         /\ fin' = [fn |-> "check_miso_frame", data |-> data, cmd_type |-> cmd_type]
         /\ fout' = [res |-> check_miso_frame_value(data, cmd_type), peak |-> 0]
    /\ UNCHANGED driver

FnNext == ApplyCksum \/ ApplyCheck

FnSpec == Init /\ [][FnNext]_vars

-----------------------------------------------------------------------------
(* Vocabulary of the properties, stated on the wire format and not on the   *)
(* driver's operators.                                                      *)

Done == pc = "done"

\* decode returned a payload to read_uart_data
Decoded == resp.st = "ok"

\* the payload's last byte is 255 - (sum of the preceding bytes mod 256)
ChecksumValid(v) ==
    /\ Len(v) >= 1
    /\ v[Len(v)] = 255 - (SumBytes(SubSeq(v, 1, Len(v) - 1)) % 256)

\* the four conditions of a valid MISO frame for command code c
Validated(v, c) ==
    /\ Len(v) >= 5
    /\ v[2] = c
    /\ v[3] = 0
    /\ v[4] = Len(v) - 5

\* the call read its bytes without the transport reporting would-block or a fault
Delivered == ~werr /\ result.kind \notin {"SerialR_WouldBlock", "SerialR_Other"}

\* the call has ended, every byte it asked for was delivered, and the first
\* 600 of them hold fewer than two delimiters
FewDelimiters ==
    /\ Done
    /\ Delivered
    /\ CountByte(Take(output, MAX_BUFFER), FEND) < 2

-----------------------------------------------------------------------------
\* C1: every operation answers a checksum-valid response of length >= 5 that
\* carries the issued command code and a non-zero state byte with
\* status-error, whatever the data length.
C1_NonZeroStateIsStatusError ==
    (/\ Done
     /\ Decoded
     /\ ChecksumValid(resp.v)
     /\ Len(resp.v) >= 5
     /\ resp.v[2] = CommandType(op)
     /\ resp.v[3] # 0)
    => result.kind = "StatusError"

\* C2: a byte read that reports would-block is retried; no call returns an
\* error because of a would-block report.
C2_WouldBlockIsRetried ==
    Done => result.kind # "SerialR_WouldBlock"

\* C3: device_info with a validated response of data length L <= 32 returns
\* the 32-byte buffer whose byte i is data byte i (payload byte 4 + i) for
\* i < L and 0 for i >= L.
C3_DeviceInfoBuffer ==
    (/\ Done
     /\ op = "device_info"
     /\ Decoded
     /\ ChecksumValid(resp.v)
     /\ Validated(resp.v, 208)
     /\ resp.v[4] <= 32)
    => /\ result.kind = "Ok"
       /\ Len(result.val) = 32
       /\ \A i \in 0..31 :
            result.val[i + 1] = IF i < resp.v[4] THEN resp.v[4 + i + 1] ELSE 0

\* C4: when the transport delivers every byte asked for and the first 600
\* bytes hold fewer than two 0x7e, the call returns invalid-frame; and a call
\* that is reading always comes to its end.
C4_CapTerminates ==
    /\ [](FewDelimiters => result.kind = "InvalidFrame")
    /\ ((pc = "reading") ~> Done)

C4_Witness ==
    /\ FewDelimiters
    /\ chatter
    /\ Len(output) = MAX_BUFFER + 1
    /\ result.kind = "InvalidFrame"

\* C5: every call ends with success or one of the error kinds; none aborts
\* on an out-of-range index or an arithmetic underflow.
C5_NoAbort ==
    Done => result.kind \in {"Ok"} \cup ErrorKinds

\* C6: a decoded response whose last byte differs from the checksum of the
\* preceding bytes yields checksum-failed, whatever else it holds.
C6_BadChecksumRejected ==
    (/\ Done
     /\ Decoded
     /\ Len(resp.v) >= 1
     /\ ~ChecksumValid(resp.v))
    => result.kind = "ChecksumFailed"

C6_Witness ==
    /\ Done
    /\ Decoded
    /\ Len(resp.v) >= 5
    /\ ~ChecksumValid(resp.v)
    /\ resp.v[2] = CommandType(op)
    /\ resp.v[3] = 0
    /\ resp.v[4] = Len(resp.v) - 5
    /\ result.kind = "ChecksumFailed"

\* C7: read_measurement on a checksum-valid payload: length 45 is validated
\* and decoded into ten values, length 5 is empty-result, any other length
\* is invalid-frame.
C7_ReadMeasurementLengths ==
    (/\ Done
     /\ op = "read_measurement"
     /\ Decoded
     /\ ChecksumValid(resp.v))
    => /\ (Len(resp.v) = 45 /\ Validated(resp.v, 3))
            => (result.kind = "Ok" /\ Len(result.val) = 10)
       /\ (Len(resp.v) = 45 /\ ~Validated(resp.v, 3))
            => result.kind \in {"InvalidRespose", "StatusError"}
       /\ Len(resp.v) = 5 => result.kind = "EmptyResult"
       /\ Len(resp.v) \notin {5, 45} => result.kind = "InvalidFrame"

C7_Witness ==
    /\ Done
    /\ op = "read_measurement"
    /\ Decoded
    /\ ChecksumValid(resp.v)
    /\ Len(resp.v) = 45
    /\ result.kind = "Ok"
    /\ result.val[1] = <<16256, 0>>

\* C8: against the stub device and a transport without faults,
\* write_cleaning_interval_result(v) returns Ok and a read_cleaning_interval that
\* follows it returns v.
C8_IntervalRoundTrip ==
    (dev = "stub" /\ ~faulted /\ Done)
    => /\ op = "write_cleaning_interval" => result.kind = "Ok"
       /\ (op = "read_cleaning_interval" /\ prev.op = "write_cleaning_interval")
            => result = Res("Ok", <<prev.arg>>)

C8_Witness ==
    /\ dev = "stub"
    /\ ~faulted
    /\ Done
    /\ op = "read_cleaning_interval"
    /\ prev.op = "write_cleaning_interval"
    /\ prev.arg = <<32381, 4371>>
    /\ result = Res("Ok", << <<32381, 4371>> >>)

\* C9: device_info yields empty-result for a validated response whose data
\* length is 33 or more, and 32 zero bytes for a validated 5-byte response.
C9_DeviceInfoLimits ==
    (/\ Done
     /\ op = "device_info"
     /\ Decoded
     /\ ChecksumValid(resp.v)
     /\ Validated(resp.v, 208))
    => /\ resp.v[4] >= 33 => result.kind = "EmptyResult"
       /\ Len(resp.v) = 5 => result = Res("Ok", Fill(32, 0))

C9_Witness ==
    /\ Done
    /\ op = "device_info"
    /\ Decoded
    /\ ChecksumValid(resp.v)
    /\ Validated(resp.v, 208)
    /\ resp.v[4] = 33
    /\ result.kind = "EmptyResult"

\* C10: a call whose transport write fails returns write-error and reads no
\* byte from the transport.
C10_WriteErrorReadsNothing ==
    werr => (Done /\ result.kind = "SerialW" /\ nreads = 0 /\ output = <<>>)

C10_Witness ==
    /\ werr
    /\ Done
    /\ nwrites = 1
    /\ result.kind = "SerialW"

\* C11: the request payload of every call is [0, command code, L, data...,
\* checksum]: L is the number of bytes between the length byte and the
\* checksum byte, and the checksum byte is 255 - (sum of every preceding
\* byte mod 256).
C11_RequestShape ==
    pc # "idle"
    => /\ Len(mosi) >= 4
       /\ mosi[1] = 0
       /\ mosi[2] = CommandType(op)
       /\ mosi[3] = Len(mosi) - 4
       /\ ChecksumValid(mosi)

C11_Witness ==
    /\ op = "write_cleaning_interval"
    /\ arg = <<32381, 4371>>
    /\ mosi = <<0, 128, 5, 0, 126, 125, 17, 19, 91>>
    /\ tx = encode(mosi)

\* C12: compute_cksum of any byte sequence, the empty one included, is
\* 255 - (sum of the bytes mod 256), a value in 0..255, and the running sum
\* never exceeds what its 16-bit variable holds.
C12_ChecksumValue ==
    fin.fn = "compute_cksum"
    => /\ fout.res = Res("Ok", <<255 - (SumBytes(fin.data) % 256)>>)
       /\ fout.res.val[1] \in 0..255
       /\ fout.peak < U16

C12_Witness ==
    /\ fin.fn = "compute_cksum"
    /\ fin.data = <<255, 255, 128>>
    /\ fout.res.val = <<129>>
    /\ fout.peak = 510

\* C13: check_miso_frame tests length >= 5, command code, state and length
\* field in that order and the first test that fails decides the error; a
\* payload that passes all four is returned as it was given.
C13_ValidatorOrder ==
    fin.fn = "check_miso_frame"
    => LET d == fin.data
           c == fin.cmd_type
       IN  /\ Len(d) < 5 => fout.res = Err("InvalidRespose")
           /\ (Len(d) >= 5 /\ d[2] # c) => fout.res = Err("InvalidRespose")
           /\ (Len(d) >= 5 /\ d[2] = c /\ d[3] # 0) => fout.res = Err("StatusError")
           /\ (Len(d) >= 5 /\ d[2] = c /\ d[3] = 0 /\ d[4] # Len(d) - 5)
                => fout.res = Err("InvalidRespose")
           /\ Validated(d, c) => fout.res = Res("Ok", d)

C13_Witness ==
    /\ fin.fn = "check_miso_frame"
    /\ fin.cmd_type = 3
    /\ fin.data = <<0, 3, 2, 3, 0>>
    /\ fout.res = Err("StatusError")

\* C14: in any one call read_uart_data takes at most 600 bytes from the
\* transport, however the call ends.
C14_AtMost600Read ==
    Len(output) <= MAX_BUFFER

\* C15: a call makes exactly one transport write; the write is made before
\* the call's first byte read, and nothing is written again in the same
\* call whatever the call returns.
C15_OneWrite ==
    /\ [](pc # "idle" => nwrites = 1)
    /\ [](nreads > 0 => nwrites = 1)
    /\ [][ncalls' = ncalls => nwrites' = nwrites]_vars

C15_Witness ==
    /\ Done
    /\ result.kind = "ChecksumFailed"
    /\ nreads > 0
    /\ nwrites = 1

\* C16: read_uart_data takes no byte from the transport once it has read
\* the second 0x7e: the second delimiter is the last byte of what the call
\* read, and what the transport holds behind it is left as it is until the
\* next call.
C16_StopsAtSecondDelimiter ==
    /\ [](CountByte(output, FEND) >= 2
            => (CountByte(output, FEND) = 2 /\ output[Len(output)] = FEND))
    /\ [][(CountByte(output, FEND) >= 2 /\ ncalls' = ncalls) => rx' = rx]_vars

C16_Witness ==
    /\ dev = "fuzz"
    /\ Done
    /\ result.kind = "Ok"
    /\ CountByte(output, FEND) = 2
    /\ rx = <<85, FEND, 0>>

\* C17: read_measurement on a validated 45-byte payload returns ten values;
\* the bit pattern of value i (i in 0..9) is the big-endian unsigned number
\* held by payload bytes 4 + 4i .. 7 + 4i, obtained without overflow.
C17_MeasurementBigEndian ==
    (/\ Done
     /\ op = "read_measurement"
     /\ Decoded
     /\ ChecksumValid(resp.v)
     /\ Len(resp.v) = 45
     /\ Validated(resp.v, 3))
    => /\ result.kind = "Ok"
       /\ Len(result.val) = 10
       /\ \A i \in 0..9 :
            result.val[i + 1] =
                << resp.v[4 + 4 * i + 1] * 256 + resp.v[5 + 4 * i + 1],
                   resp.v[6 + 4 * i + 1] * 256 + resp.v[7 + 4 * i + 1] >>

C17_Witness ==
    /\ Done
    /\ op = "read_measurement"
    /\ Decoded
    /\ Validated(resp.v, 3)
    /\ resp.v[5] = 255
    /\ result.kind = "Ok"
    /\ result.val[1] = <<65534, 65020>>
    /\ result.val[10] = <<56282, 55768>>

\* the bytes of a request between its length byte and its checksum byte
RequestData(m) == SubSeq(m, 4, Len(m) - 1)

\* a 32-bit value <<hi, lo>> as four bytes, the most significant first
BigEndian(n) == << n[1] \div 256, n[1] % 256, n[2] \div 256, n[2] % 256 >>

\* C18 as stated: the data bytes of write_cleaning_interval(value)'s request
\* are exactly the four bytes of value, most significant first.
C18_DataIsValueBytes ==
    (pc # "idle" /\ op = "write_cleaning_interval")
    => RequestData(mosi) = BigEndian(arg)

\* C18: the data bytes of write_cleaning_interval(value)'s request are five,
\* as its length byte says: the sub-command byte 0x00, then the four bytes of
\* value, most significant first.
C18_DataIsSubcommandThenValue ==
    (pc # "idle" /\ op = "write_cleaning_interval")
    => /\ mosi[3] = 5
       /\ RequestData(mosi) = <<0>> \o BigEndian(arg)

C18_Witness ==
    /\ pc = "reading"
    /\ op = "write_cleaning_interval"
    /\ arg = <<32381, 4371>>
    /\ RequestData(mosi) = <<0, 126, 125, 17, 19>>

\* C19: against the device that answers each request with one well-formed
\* frame, a call that returns success decoded the answer to its own request:
\* no byte it read was an answer to an earlier request, left unread by a
\* call that ended in a read error.
C19_SuccessIsOwnResponse ==
    (dev = "stub" /\ Done /\ result.kind = "Ok") => stale = 0

\* C20: a call returns success only on a decoded response of length >= 5
\* whose command byte is the code of the issued command, whose state byte is
\* 0 and whose length field is the payload length less 5; of the two
\* operations that share code 0x80, read_cleaning_interval accepts only a
\* data length of 4 and write_cleaning_interval only a data length of 0, so
\* neither accepts the response to the other.
C20_SuccessNeedsValidFrame ==
    (Done /\ result.kind = "Ok")
    => /\ Decoded
       /\ Validated(resp.v, CommandType(op))
       /\ op = "read_cleaning_interval" => resp.v[4] = 4
       /\ op = "write_cleaning_interval" => resp.v[4] = 0

C20_Witness ==
    /\ dev = "stub"
    /\ Done
    /\ op = "write_cleaning_interval"
    /\ stale > 0
    /\ Decoded
    /\ Validated(resp.v, 128)
    /\ resp.v[4] = 4
    /\ result.kind = "InvalidRespose"

====
